---------------------------- MODULE Spec2Model ----------------------------
(***************************************************************************)
(* A model of the ZetoSearch retrieval engine (src/src/utils.ts, the last  *)
(* class ZetoSearch of the file, with the Tokenizer class it imports).     *)
(*                                                                         *)
(* JavaScript values are tagged tuples: <<"undefined">>, <<"null">>,       *)
(* <<"number", n>>, <<"NaN">>, <<"string", chars>> where chars is the      *)
(* sequence of the string's characters, and <<"object", fields>> where     *)
(* fields maps the field names to values (a missing field is undefined).   *)
(* Scores and similarities are real numbers in the code; here they are     *)
(* integers counting ten-thousandths (fixed point), and NaN is kept apart. *)
(***************************************************************************)
EXTENDS Integers, Sequences, FiniteSets, TLC

(***************************************************************************)
(* Bounds of the model.                                                    *)
(***************************************************************************)
\* longest list of records handed to indexDocuments
MaxBatch == 2
\* indexDocument / addDocument are not called once docsCount has reached this
MaxDocs == 2

(***************************************************************************)
(* JavaScript values.                                                      *)
(***************************************************************************)
UNDEF == <<"undefined">>
NULL == <<"null">>
NaN == <<"NaN">>
Num(n) == <<"number", n>>
Str(chars) == <<"string", chars>>
Obj(fields) == <<"object", fields>>

TypeOf(v) ==
  CASE v[1] = "undefined" -> "undefined"
    [] v[1] = "null" -> "object"
    [] v[1] = "number" -> "number"
    [] v[1] = "NaN" -> "number"
    [] v[1] = "string" -> "string"
    [] v[1] = "object" -> "object"
    [] v[1] = "array" -> "object"
    [] v[1] = "boolean" -> "boolean"
    [] v[1] = "function" -> "function"

\* v == null in the code: null or undefined
IsNullish(v) == v[1] \in {"undefined", "null"}

\* !v in the code
Falsy(v) ==
  \/ v[1] \in {"undefined", "null", "NaN"}
  \/ v[1] = "number" /\ v[2] = 0
  \/ v[1] = "string" /\ v[2] = <<>>
  \/ v[1] = "boolean" /\ ~v[2]

\* doc[field]
Get(doc, field) == IF field \in DOMAIN doc[2] THEN doc[2][field] ELSE UNDEF

(***************************************************************************)
(* Characters and strings.                                                 *)
(***************************************************************************)
LowerLetters ==
  <<"a","b","c","d","e","f","g","h","i","j","k","l","m",
    "n","o","p","q","r","s","t","u","v","w","x","y","z">>
UpperLetters ==
  <<"A","B","C","D","E","F","G","H","I","J","K","L","M",
    "N","O","P","Q","R","S","T","U","V","W","X","Y","Z">>
DigitChars == <<"0","1","2","3","4","5","6","7","8","9">>

Range(s) == {s[i] : i \in DOMAIN s}

\* the lower-case letter of each upper-case letter
LowerOfUpper ==
  [c \in Range(UpperLetters) |->
     LowerLetters[CHOOSE i \in DOMAIN UpperLetters : UpperLetters[i] = c]]
   @@ [c \in {} |-> c]

LowerChar(c) == IF c \in DOMAIN LowerOfUpper THEN LowerOfUpper[c] ELSE c

toLowerCase(s) == [i \in 1..Len(s) |-> LowerChar(s[i])]

\* the characters WordTokenizer keeps inside a token: [A-Za-z0-9_]
WordChars ==
  Range(LowerLetters) \cup Range(UpperLetters) \cup Range(DigitChars) \cup {"_"}

IsWordChar(c) == c \in WordChars

IsSpace(c) == c = " "

RECURSIVE TrimStart(_)
TrimStart(s) ==
  IF s # <<>> /\ IsSpace(Head(s)) THEN TrimStart(Tail(s)) ELSE s

RECURSIVE TrimEnd(_)
TrimEnd(s) ==
  IF s # <<>> /\ IsSpace(s[Len(s)]) THEN TrimEnd(SubSeq(s, 1, Len(s) - 1)) ELSE s

trim(s) == TrimEnd(TrimStart(s))

startsWith(s, p) == Len(p) <= Len(s) /\ SubSeq(s, 1, Len(p)) = p

includes(s, p) ==
  \E i \in 0..(Len(s) - Len(p)) : SubSeq(s, i + 1, i + Len(p)) = p

\* natural.WordTokenizer: split at every run of non-word characters, drop
\* the empty pieces
RECURSIVE SplitWords(_, _, _, _)
SplitWords(s, i, cur, acc) ==
  IF i > Len(s)
  THEN IF cur = <<>> THEN acc ELSE Append(acc, cur)
  ELSE IF IsWordChar(s[i])
       THEN SplitWords(s, i + 1, Append(cur, s[i]), acc)
       ELSE SplitWords(s, i + 1, <<>>, IF cur = <<>> THEN acc ELSE Append(acc, cur))

WordTokenize(s) == SplitWords(s, 1, <<>>, <<>>)

\* Tokenizer.tokenize(text, options): [] for a text that is falsy or not a
\* string; else the lower-cased words within the length limits.  A limit
\* of 0 stands for an option that is not given (the code tests
\* `options.minLength &&`).  Stemming is off in every configuration of the
\* model, so the final map leaves each token as it is.
TokenizerTokenize(text, opts) ==
  IF Falsy(text) \/ TypeOf(text) # "string"
  THEN <<>>
  ELSE LET tokens == WordTokenize(toLowerCase(text[2]))
           Keep(token) ==
             /\ token # <<>>
             /\ ~(opts.minLength # 0 /\ Len(token) < opts.minLength)
             /\ ~(opts.maxLength # 0 /\ Len(token) > opts.maxLength)
       IN SelectSeq(tokens, Keep)

NoTokenOptions == [stem |-> FALSE, minLength |-> 0, maxLength |-> 0]

(***************************************************************************)
(* natural.DamerauLevenshteinDistance (unrestricted, unit costs).  The     *)
(* table H is filled row by row, H[i][j] being the distance between the    *)
(* first i characters of a and the first j characters of b; rows[i + 1]    *)
(* is row i and row[j + 1] its entry j.                                    *)
(***************************************************************************)
Min2(x, y) == IF x <= y THEN x ELSE y
Max2(x, y) == IF x >= y THEN x ELSE y

LastIndexBefore(s, c, bound) ==
  LET hits == {k \in 1..(bound - 1) : s[k] = c}
  IN IF hits = {} THEN 0 ELSE CHOOSE k \in hits : \A h \in hits : h <= k

DLCell(a, b, rows, row, i, j) ==
  LET cost == IF a[i] = b[j] THEN 0 ELSE 1
      k == LastIndexBefore(a, b[j], i)
      l == LastIndexBefore(b, a[i], j)
      base == Min2(rows[i][j] + cost, Min2(row[j] + 1, rows[i][j + 1] + 1))
  IN IF k > 0 /\ l > 0
     THEN Min2(base, rows[k][l] + (i - k - 1) + 1 + (j - l - 1))
     ELSE base

RECURSIVE DLRow(_, _, _, _, _, _)
DLRow(a, b, rows, row, i, j) ==
  IF j > Len(b) THEN row
  ELSE DLRow(a, b, rows, Append(row, DLCell(a, b, rows, row, i, j)), i, j + 1)

RECURSIVE DLRows(_, _, _, _)
DLRows(a, b, rows, i) ==
  IF i > Len(a) THEN rows
  ELSE DLRows(a, b, Append(rows, DLRow(a, b, rows, <<i>>, i, 1)), i + 1)

DamerauLevenshteinDistance(a, b) ==
  LET row0 == [j \in 1..(Len(b) + 1) |-> j - 1]
  IN DLRows(a, b, <<row0>>, 1)[Len(a) + 1][Len(b) + 1]

(***************************************************************************)
(* Numbers.  avgDocLength is kept exact, as a fraction n/d in lowest       *)
(* terms.                                                                  *)
(***************************************************************************)
RECURSIVE Gcd(_, _)
Gcd(a, b) == IF b = 0 THEN a ELSE Gcd(b, a % b)

Rat(n, d) == LET g == Gcd(n, d) IN [n |-> n \div g, d |-> d \div g]

Zero == Rat(0, 1)

RECURSIVE DecimalString(_)
DecimalString(n) ==
  IF n < 10 THEN <<DigitChars[n + 1]>>
  ELSE Append(DecimalString(n \div 10), DigitChars[(n % 10) + 1])

\* String(v) for the values a record field holds
String(v) ==
  CASE v[1] = "string" -> v[2]
    [] v[1] = "number" -> DecimalString(v[2])
    [] v[1] = "NaN" -> <<"N","a","N">>
    [] v[1] = "null" -> <<"n","u","l","l">>
    [] v[1] = "undefined" -> <<"u","n","d","e","f","i","n","e","d">>

RECURSIVE SumOver(_, _)
SumOver(f, S) ==
  IF S = {} THEN 0
  ELSE LET x == CHOOSE y \in S : TRUE IN f[x] + SumOver(f, S \ {x})

(***************************************************************************)
(* The engine's configuration.                                             *)
(***************************************************************************)
\* a variant with no stop word
stopwords_None == {}

\* export const stopwords
stopwords ==
  {<<"t","h","e">>, <<"i","s">>, <<"a","n","d">>, <<"a">>, <<"a","n">>,
   <<"a","s">>, <<"a","r","e">>, <<"w","a","s">>, <<"w","e","r","e">>,
   <<"b","e","e","n">>, <<"b","e">>, <<"h","a","v","e">>, <<"h","a","s">>,
   <<"h","a","d">>, <<"d","o">>, <<"d","o","e","s">>, <<"d","i","d">>,
   <<"w","i","l","l">>, <<"w","o","u","l","d">>, <<"c","o","u","l","d">>,
   <<"s","h","o","u","l","d">>, <<"m","a","y">>, <<"m","i","g","h","t">>,
   <<"m","u","s","t">>, <<"s","h","a","l","l">>, <<"c","a","n">>,
   <<"t","o">>, <<"o","f">>, <<"i","n">>, <<"f","o","r">>, <<"o","n">>,
   <<"w","i","t","h">>, <<"a","t">>, <<"b","y">>, <<"f","r","o","m">>,
   <<"u","p">>, <<"a","b","o","u","t">>, <<"i","n","t","o">>,
   <<"t","h","r","o","u","g","h">>, <<"d","u","r","i","n","g">>,
   <<"b","e","f","o","r","e">>, <<"a","f","t","e","r">>,
   <<"a","b","o","v","e">>, <<"b","e","l","o","w">>, <<"o","u","t">>,
   <<"o","f","f">>, <<"o","v","e","r">>, <<"u","n","d","e","r">>,
   <<"a","g","a","i","n">>, <<"f","u","r","t","h","e","r">>,
   <<"t","h","e","n">>, <<"o","n","c","e">>}

\* this.options of an engine built with options o: the defaults of the
\* constructor, overridden by what o gives
ConstructorOptions(o) ==
  [searchFields |-> o.searchFields,
   resultFields |-> o.resultFields,
   stopWords |-> stopwords,
   fuzzyFactor |-> 1,
   minTokenLength |-> 1,
   maxTokenLength |-> 50,
   enableStemming |-> FALSE,
   idAlias |-> o.idAlias]

TokenOptions(opts) ==
  [stem |-> opts.enableStemming,
   minLength |-> opts.minTokenLength,
   maxLength |-> opts.maxTokenLength]

(***************************************************************************)
(* The engine's state as one record e: index (key -> IndexEntry, a key     *)
(* `field:token` being the pair <<field, token>>), indexKeys (the keys of  *)
(* index in the order a `for in` loop visits them: insertion order),       *)
(* documents, documentMap, docsCount, docLengths, avgDocLength.            *)
(***************************************************************************)
EmptyMap == <<>>

NewEngine ==
  [index |-> EmptyMap, indexKeys |-> <<>>, documents |-> <<>>,
   documentMap |-> EmptyMap, docsCount |-> 0, docLengths |-> EmptyMap,
   avgDocLength |-> Zero]

validateDocument(doc) ==
  IF Falsy(doc) \/ TypeOf(doc) # "object"
  THEN FALSE
  ELSE ~IsNullish(Get(doc, "id"))

\* IndexToken with documentFrequency counted once per occurrence
IndexToken_DfPerOccurrence(ix, field, token, pos, docId, stopWords) ==
  IF token = <<>> \/ token \in stopWords
  THEN ix
  ELSE LET key == <<field, token>>
           hasKey == key \in DOMAIN ix.index
           entry0 == IF hasKey THEN ix.index[key]
                     ELSE [df |-> 0, postings |-> EmptyMap]
           hasPosting == docId \in DOMAIN entry0.postings
           posting0 == IF hasPosting THEN entry0.postings[docId]
                       ELSE [tf |-> 0, positions |-> <<>>]
           posting1 == [tf |-> posting0.tf + 1,
                        positions |-> Append(posting0.positions, pos)]
           entry1 == [df |-> entry0.df + 1,
                      postings |-> (docId :> posting1) @@ entry0.postings]
       IN [index |-> (key :> entry1) @@ ix.index,
           indexKeys |-> IF hasKey THEN ix.indexKeys
                         ELSE Append(ix.indexKeys, key)]

\* IndexToken that counts a document only when it creates the entry
IndexToken_DfAtCreation(ix, field, token, pos, docId, stopWords) ==
  IF token = <<>> \/ token \in stopWords
  THEN ix
  ELSE LET key == <<field, token>>
           hasKey == key \in DOMAIN ix.index
           entry0 == IF hasKey THEN ix.index[key]
                     ELSE [df |-> 0, postings |-> EmptyMap]
           hasPosting == docId \in DOMAIN entry0.postings
           posting0 == IF hasPosting THEN entry0.postings[docId]
                       ELSE [tf |-> 0, positions |-> <<>>]
           posting1 == [tf |-> posting0.tf + 1,
                        positions |-> Append(posting0.positions, pos)]
           entry1 == [df |-> IF hasKey THEN entry0.df ELSE 1,
                      postings |-> (docId :> posting1) @@ entry0.postings]
       IN [index |-> (key :> entry1) @@ ix.index,
           indexKeys |-> IF hasKey THEN ix.indexKeys
                         ELSE Append(ix.indexKeys, key)]

\* the body of tokens.forEach((token, pos) => ...) in indexDocument, on
\* ix = [index, indexKeys]
IndexToken(ix, field, token, pos, docId, stopWords) ==
  IF token = <<>> \/ token \in stopWords
  THEN ix
  ELSE LET key == <<field, token>>
           hasKey == key \in DOMAIN ix.index
           entry0 == IF hasKey THEN ix.index[key]
                     ELSE [df |-> 0, postings |-> EmptyMap]
           hasPosting == docId \in DOMAIN entry0.postings
           posting0 == IF hasPosting THEN entry0.postings[docId]
                       ELSE [tf |-> 0, positions |-> <<>>]
           posting1 == [tf |-> posting0.tf + 1,
                        positions |-> Append(posting0.positions, pos)]
           entry1 == [df |-> IF hasPosting THEN entry0.df ELSE entry0.df + 1,
                      postings |-> (docId :> posting1) @@ entry0.postings]
       IN [index |-> (key :> entry1) @@ ix.index,
           indexKeys |-> IF hasKey THEN ix.indexKeys
                         ELSE Append(ix.indexKeys, key)]

RECURSIVE IndexTokens(_, _, _, _, _, _)
IndexTokens(ix, field, tokens, i, docId, stopWords) ==
  IF i > Len(tokens) THEN ix
  ELSE IndexTokens(IndexToken(ix, field, tokens[i], i - 1, docId, stopWords),
                   field, tokens, i + 1, docId, stopWords)

\* one round of `for (const field of this.searchFields)` in indexDocument,
\* on acc = [index, indexKeys, totalTokens]
IndexField(acc, doc, field, docId, opts) ==
  LET value == Get(doc, field) IN
  IF Falsy(value) THEN acc
  ELSE LET content == String(value)
           tokens == TokenizerTokenize(Str(content), TokenOptions(opts))
           ix == IndexTokens([index |-> acc.index, indexKeys |-> acc.indexKeys],
                             field, tokens, 1, docId, opts.stopWords)
       IN [index |-> ix.index, indexKeys |-> ix.indexKeys,
           totalTokens |-> acc.totalTokens + Len(tokens)]

RECURSIVE IndexFields(_, _, _, _, _)
IndexFields(acc, doc, fields, docId, opts) ==
  IF fields = <<>> THEN acc
  ELSE IndexFields(IndexField(acc, doc, Head(fields), docId, opts),
                   doc, Tail(fields), docId, opts)

indexDocument(e, doc, opts) ==
  IF ~validateDocument(doc) THEN e
  ELSE LET docId == String(Get(doc, "id"))
           acc == IndexFields([index |-> e.index, indexKeys |-> e.indexKeys,
                               totalTokens |-> 0],
                              doc, opts.searchFields, docId, opts)
       IN [e EXCEPT !.documents = Append(e.documents, doc),
                    !.documentMap = (docId :> doc) @@ e.documentMap,
                    !.docsCount = e.docsCount + 1,
                    !.index = acc.index,
                    !.indexKeys = acc.indexKeys,
                    !.docLengths = (docId :> acc.totalTokens) @@ e.docLengths]

calculateAverageDocLength(e) ==
  LET totalLength == SumOver(e.docLengths, DOMAIN e.docLengths)
  IN [e EXCEPT !.avgDocLength =
        IF e.docsCount > 0 THEN Rat(totalLength, e.docsCount) ELSE Zero]

RECURSIVE IndexEach(_, _, _)
IndexEach(e, docs, opts) ==
  IF docs = <<>> THEN e
  ELSE IndexEach(IF validateDocument(Head(docs))
                 THEN indexDocument(e, Head(docs), opts)
                 ELSE e,
                 Tail(docs), opts)

\* indexDocuments that leaves the length table of the earlier load in place
indexDocuments_KeepLengths(e, docs, opts) ==
  LET cleared == [e EXCEPT !.index = EmptyMap, !.indexKeys = <<>>,
                           !.documents = <<>>, !.documentMap = EmptyMap,
                           !.docsCount = 0]
  IN calculateAverageDocLength(IndexEach(cleared, docs, opts))

\* indexDocuments that leaves the index of the earlier load in place
indexDocuments_KeepIndex(e, docs, opts) ==
  LET cleared == [e EXCEPT !.documents = <<>>, !.documentMap = EmptyMap,
                           !.docsCount = 0, !.docLengths = EmptyMap]
  IN calculateAverageDocLength(IndexEach(cleared, docs, opts))

\* indexDocuments(docs), docs an array
indexDocuments(e, docs, opts) ==
  LET cleared == [e EXCEPT !.index = EmptyMap, !.indexKeys = <<>>,
                           !.documents = <<>>, !.documentMap = EmptyMap,
                           !.docsCount = 0, !.docLengths = EmptyMap]
  IN calculateAverageDocLength(IndexEach(cleared, docs, opts))

\* getStats: the length of JSON.stringify(this.index)
FieldChars ==
  [id |-> <<"i","d">>, title |-> <<"t","i","t","l","e">>,
   content |-> <<"c","o","n","t","e","n","t">>, age |-> <<"a","g","e">>]

SumOf(S, F(_)) == SumOver([x \in S |-> F(x)], S)

Commas(n) == IF n > 0 THEN n - 1 ELSE 0

JsonLength(idx) ==
  LET Digits(n) == Len(DecimalString(n))
      PositionsLen(ps) ==
        2 + SumOf(DOMAIN ps, LAMBDA i : Digits(ps[i])) + Commas(Len(ps))
      PostingLen(po) == 6 + Digits(po.tf) + 13 + PositionsLen(po.positions) + 1
      PostingsLen(pm) ==
        2 + SumOf(DOMAIN pm, LAMBDA d : Len(d) + 3 + PostingLen(pm[d]))
          + Commas(Cardinality(DOMAIN pm))
      EntryLen(en) == 6 + Digits(en.df) + 12 + PostingsLen(en.postings) + 1
      KeyLen(k) == Len(FieldChars[k[1]]) + 1 + Len(k[2])
  IN 2 + SumOf(DOMAIN idx, LAMBDA k : KeyLen(k) + 3 + EntryLen(idx[k]))
       + Commas(Cardinality(DOMAIN idx))

getStats(e, opts) ==
  [totalDocuments |-> e.docsCount,
   totalTokens |-> Cardinality(DOMAIN e.index),
   avgDocLength |-> e.avgDocLength,
   indexSize |-> JsonLength(e.index),
   fieldsIndexed |-> opts.searchFields]

(***************************************************************************)
(* The records and configurations the model draws its inputs from.         *)
(***************************************************************************)
TextJavaScriptBasics ==
  <<"J","a","v","a","S","c","r","i","p","t"," ","B","a","s","i","c","s">>

TextLearn ==
  <<"L","e","a","r","n"," ","p","r","o","g","r","a","m","m","i","n","g"," ",
    "w","i","t","h"," ","J","S">>

TextNodeJs ==
  <<"N","o","d","e",".","j","s"," ","A","d","v","a","n","c","e","d">>

TextExplore ==
  <<"E","x","p","l","o","r","e"," ","b","a","c","k","e","n","d"," ","d","e",
    "v","e","l","o","p","m","e","n","t">>

TextTypeScriptGuide ==
  <<"T","y","p","e","S","c","r","i","p","t"," ","G","u","i","d","e">>

TextStrong ==
  <<"S","t","r","o","n","g"," ","t","y","p","i","n","g"," ","f","o","r"," ",
    "J","a","v","a","S","c","r","i","p","t">>

TextJava ==
  <<"J","a","v","a">>

TextJavaBasics ==
  <<"J","a","v","a"," ","B","a","s","i","c","s">>

TextVocabulary ==
  <<"J","a","v","a","S","c","r","i","p","t"," ","J","a","v","a"," ","N","o",
    "d","e"," ","T","y","p","e","S","c","r","i","p","t">>
\* the three records of the README's quick start, with an age each
D1 ==
  Obj([id |-> Num(1), title |-> Str(TextJavaScriptBasics),
       content |-> Str(TextLearn), age |-> Num(30)])
D2 ==
  Obj([id |-> Num(2), title |-> Str(TextNodeJs),
       content |-> Str(TextExplore), age |-> NULL])
D3 ==
  Obj([id |-> Num(3), title |-> Str(TextTypeScriptGuide),
       content |-> Str(TextStrong), age |-> Num(20)])
\* a record whose identifier is the string "2": String(id) is that of D2
D2s ==
  Obj([id |-> Str(<<"2">>), title |-> Str(TextJavaBasics), age |-> Num(40)])
\* a record with the identifier of D1 and no text
E1 == Obj([id |-> Num(1)])
\* a record identified by _id only
M7 == Obj(("_id" :> Num(7)) @@ [title |-> Str(TextJava)])
\* a record holding the vocabulary javascript, java, node, typescript
V4 == Obj([id |-> Num(4), title |-> Str(TextVocabulary)])
Records == {D1, D2, D2s, E1, M7, NULL}

Batches == UNION {[1..n -> Records] : n \in 0..MaxBatch}

Configs ==
  {[searchFields |-> <<"title">>, resultFields |-> <<"id", "title", "age">>,
    idAlias |-> "id"],
   [searchFields |-> <<"title", "content">>,
    resultFields |-> <<"id", "title", "age">>, idAlias |-> "_id"]}

VOID == <<"void">>

\* search options; a field that is not given is undefined
NoOptions ==
  [fields |-> UNDEF, fuzzyFactor |-> UNDEF, filter |-> UNDEF, sort |-> UNDEF,
   limit |-> UNDEF, offset |-> UNDEF, debug |-> UNDEF]

(***************************************************************************)
(* Real numbers in fixed point.  A score or a similarity x of the code is  *)
(* the value <<"number", m>> with m = x * 10000, truncated toward 0 after  *)
(* each multiplication or division (the resolution of the 4 decimals the   *)
(* code reports); NaN is <<"NaN">>.                                         *)
(***************************************************************************)
Scale == 10000

TruncDiv(a, b) == IF a >= 0 THEN a \div b ELSE -((-a) \div b)

IsNaN(v) == v[1] = "NaN"

\* Math.log of the odd numbers 1, 3, ..., 19 in ten-thousandths: the
\* arguments of the BM25 idf are quotients of two odd numbers
LnOfOdd == <<0, 10986, 16094, 19459, 21972, 23979, 25649, 27081, 28332, 29444>>

\* Math.log(num / den) for odd num and den; NaN for a negative quotient
MathLog(num, den) ==
  IF num <= 0 THEN NaN
  ELSE Num(LnOfOdd[(num + 1) \div 2] - LnOfOdd[(den + 1) \div 2])

\* Math.max(0.1, x)
\* a variant without the floor
MaxWithFloor_None(x) == x

MaxWithFloor(x) ==
  IF IsNaN(x) THEN NaN ELSE Num(Max2(Scale \div 10, x[2]))

\* parseFloat(score.toFixed(4)): rounded to a multiple of 1/10000, which
\* every number of this fixed point is
RoundTo4(x) == IF IsNaN(x) THEN NaN ELSE Num(((x[2] * 10000) \div Scale))

\* Math.round(length * fuzzyFactor), fuzzyFactor given in tenths
\* a variant that accepts every edit distance up to the term's length
MaxDistance_WholeLength(length, tenths) == length

MaxDistance(length, tenths) == (2 * length * tenths + 10) \div 20

(***************************************************************************)
(* getDistance, calculateSimilarity, bm25Score.                            *)
(***************************************************************************)
QueryJavascript == <<"j","a","v","a","s","c","r","i","p","t">>
QueryAll ==
  <<"J","a","v","a","S","c","r","i","p","t"," ","n","o","d","e"," ",
    "t","y","p","e","s","c","r","i","p","t"," ","t","h","e">>
QueryBasics == <<" ","b","a","s","i","c"," ">>
QueryJav == <<"j","a","v">>
QueryBlank == <<" "," "," ">>
QueryStopWords == <<"T","h","e"," ","o","f">>

Texts ==
  {TextJavaScriptBasics, TextLearn, TextNodeJs, TextExplore,
   TextTypeScriptGuide, TextStrong, TextJava, TextJavaBasics, TextVocabulary,
   QueryJavascript, QueryAll, QueryBasics, QueryJav, QueryBlank,
   QueryStopWords}

Vocabulary == UNION {Range(WordTokenize(toLowerCase(t))) : t \in Texts}

\* the distances between the words of the model's texts, computed once
DistanceTable ==
  [p \in Vocabulary \X Vocabulary |-> DamerauLevenshteinDistance(p[1], p[2])]
    @@ [p \in {} |-> 0]

getDistance(a, b) ==
  IF <<a, b>> \in DOMAIN DistanceTable THEN DistanceTable[<<a, b>>]
  ELSE DamerauLevenshteinDistance(a, b)

\* jaccardSimilarity as the pair <<intersection.size, union.size>>
jaccardSimilarity(a, b) ==
  LET setA == Range(toLowerCase(a))
      setB == Range(toLowerCase(b))
  IN <<Cardinality(setA \cap setB), Cardinality(setA \cup setB)>>

\* calculateSimilarity(term, token) in ten-thousandths
calculateSimilarity(term, token) ==
  IF term = token THEN Scale
  ELSE LET editDistance == getDistance(term, token)
           maxLength == Max2(Len(term), Len(token))
           editSim == ((maxLength - editDistance) * Scale) \div maxLength
           j == jaccardSimilarity(term, token)
           jaccardSim == (j[1] * Scale) \div j[2]
           substringBoost == IF includes(token, term) THEN 2000 ELSE 0
           prefixBoost == IF startsWith(token, term) THEN 1000 ELSE 0
       IN Max2(editSim, jaccardSim) + substringBoost + prefixBoost

\* bm25Score with k1 = 1.5 and b = 0.75.  docLength and avgDocLength are
\* fractions; docLength / avgDocLength is Infinity or NaN when avgDocLength
\* is 0.  With r = docLength / avgDocLength = p/q the code's
\*   idf * (tf * 2.5) / (tf + 1.5 * (0.25 + 0.75 * r))
\* is idf * 20 tf q / (8 tf q + 3 q + 9 p).
bm25Score(termKey, docId, idx, totalDocs, avgDocLen, docLength) ==
  IF termKey \notin DOMAIN idx \/ docId \notin DOMAIN idx[termKey].postings
  THEN Num(0)
  ELSE LET tf == idx[termKey].postings[docId].tf
           df == idx[termKey].df
           idf == MathLog(2 * (totalDocs - df) + 1, 2 * df + 1)
       IN IF IsNaN(idf) THEN NaN
          ELSE IF avgDocLen.n = 0
          THEN IF docLength.n = 0 THEN NaN ELSE Num(0)
          ELSE LET p == docLength.n * avgDocLen.d
                   q == docLength.d * avgDocLen.n
               IN Num(TruncDiv(idf[2] * 20 * tf * q,
                               8 * tf * q + 3 * q + 9 * p))

(***************************************************************************)
(* The search pipeline.  scores is the Map of search: a sequence of        *)
(* <<docId, score>> pairs in insertion order.                              *)
(***************************************************************************)
RECURSIVE IdNumber(_)
IdNumber(s) ==
  IF s = <<>> THEN 0
  ELSE 10 * IdNumber(SubSeq(s, 1, Len(s) - 1))
       + (CHOOSE d \in 0..9 : DigitChars[d + 1] = s[Len(s)])

\* the order in which `for (const docId in entry.postings)` visits the
\* identifiers: they are canonical decimal numerals in the model, which a
\* JavaScript object enumerates in ascending numeric order
RECURSIVE PostingOrder(_)
PostingOrder(S) ==
  IF S = {} THEN <<>>
  ELSE LET m == CHOOSE x \in S : \A y \in S : IdNumber(x) <= IdNumber(y)
       IN <<m>> \o PostingOrder(S \ {m})

MapHas(m, k) == \E i \in DOMAIN m : m[i][1] = k
MapGet(m, k) == m[CHOOSE i \in DOMAIN m : m[i][1] = k][2]
MapSet(m, k, v) ==
  IF MapHas(m, k)
  THEN [i \in DOMAIN m |-> IF m[i][1] = k THEN <<k, v>> ELSE m[i]]
  ELSE Append(m, <<k, v>>)

\* bm25 * similarity
TimesSimilarity(bm25, similarity) ==
  IF IsNaN(bm25) THEN NaN ELSE Num(TruncDiv(bm25[2] * similarity, Scale))

AddNumbers(x, y) == IF IsNaN(x) \/ IsNaN(y) THEN NaN ELSE Num(x[2] + y[2])

\* one round of the loop of scoreDocuments
ScoreDocument(e, termKey, similarity, scores, docId) ==
  LET docLength == IF docId \in DOMAIN e.docLengths /\ e.docLengths[docId] # 0
                   THEN Rat(e.docLengths[docId], 1)
                   ELSE e.avgDocLength
      bm25 == bm25Score(termKey, docId, e.index, e.docsCount, e.avgDocLength,
                        docLength)
      weightedScore == MaxWithFloor(TimesSimilarity(bm25, similarity))
      currentScore == IF MapHas(scores, docId) /\ ~Falsy(MapGet(scores, docId))
                      THEN MapGet(scores, docId) ELSE Num(0)
  IN MapSet(scores, docId, AddNumbers(currentScore, weightedScore))

\* a loop of the code is a recursion on the loop's state, a record of
\* what is left to visit and what has been accumulated
Loop(left, acc) == [left |-> left, acc |-> acc]

\* the loop `for (const docId in entry.postings)` of scoreDocuments
RECURSIVE ScoreEach(_, _, _, _)
ScoreEach(e, termKey, similarity, st) ==
  IF st.left = <<>> THEN st.acc
  ELSE ScoreEach(e, termKey, similarity,
                 Loop(Tail(st.left),
                      ScoreDocument(e, termKey, similarity, st.acc,
                                    Head(st.left))))

scoreDocuments(e, termKey, similarity, scores) ==
  ScoreEach(e, termKey, similarity,
            Loop(PostingOrder(DOMAIN e.index[termKey].postings), scores))

\* one round of `for (const key in this.index)` in searchTokens, on
\* acc = [scores, indexKeysMatched]
FuzzyKey(e, term, field, maxDistance, acc, key) ==
  IF key[1] # field \/ key[2] = term THEN acc
  ELSE LET similarity == calculateSimilarity(term, key[2])
           distance == getDistance(term, key[2])
       IN IF distance <= maxDistance /\ similarity > 3000
          THEN [scores |-> scoreDocuments(e, key, (similarity * 8) \div 10,
                                          acc.scores),
                indexKeysMatched |-> acc.indexKeysMatched + 1]
          ELSE acc

RECURSIVE FuzzyKeys(_, _, _, _, _)
FuzzyKeys(e, term, field, maxDistance, st) ==
  IF st.left = <<>> THEN st.acc
  ELSE FuzzyKeys(e, term, field, maxDistance,
                 Loop(Tail(st.left),
                      FuzzyKey(e, term, field, maxDistance, st.acc,
                               Head(st.left))))

\* one round of `for (const field of fields)` in searchTokens
SearchTermInField(e, term, field, fuzzyFactor, acc) ==
  LET termKey == <<field, term>>
      exact == IF termKey \in DOMAIN e.index
               THEN [scores |-> scoreDocuments(e, termKey, Scale, acc.scores),
                     indexKeysMatched |-> acc.indexKeysMatched + 1]
               ELSE acc
      maxDistance == MaxDistance(Len(term), fuzzyFactor)
  IN IF maxDistance > 0
     THEN FuzzyKeys(e, term, field, maxDistance, Loop(e.indexKeys, exact))
     ELSE exact

\* the loop `for (const field of fields)` of searchTokens
RECURSIVE SearchTermInFields(_, _, _, _)
SearchTermInFields(e, term, fuzzyFactor, st) ==
  IF st.left = <<>> THEN st.acc
  ELSE SearchTermInFields(e, term, fuzzyFactor,
         Loop(Tail(st.left),
              SearchTermInField(e, term, Head(st.left), fuzzyFactor, st.acc)))

\* the loop `for (const term of tokens)` of searchTokens
RECURSIVE SearchTerms(_, _, _, _)
SearchTerms(e, fields, fuzzyFactor, st) ==
  IF st.left = <<>> THEN st.acc
  ELSE SearchTerms(e, fields, fuzzyFactor,
         Loop(Tail(st.left),
              SearchTermInFields(e, Head(st.left), fuzzyFactor,
                                 Loop(fields, st.acc))))

searchTokens(e, tokens, fields, fuzzyFactor, acc) ==
  SearchTerms(e, fields, fuzzyFactor, Loop(tokens, acc))

(***************************************************************************)
(* sortResults, createSearchResult, search.                                *)
(***************************************************************************)
\* the rank of a character in the collation localeCompare uses: space,
\* punctuation, digits, letters
CollationOrder == <<" ", "_", ".">> \o DigitChars \o LowerLetters

CharRank(c) == CHOOSE i \in DOMAIN CollationOrder : CollationOrder[i] = c

\* a.localeCompare(b) for lower-case strings of those characters
RECURSIVE localeCompare(_, _)
localeCompare(a, b) ==
  IF a = <<>> /\ b = <<>> THEN 0
  ELSE IF a = <<>> THEN -1
  ELSE IF b = <<>> THEN 1
  ELSE IF CharRank(Head(a)) < CharRank(Head(b)) THEN -1
  ELSE IF CharRank(Head(a)) > CharRank(Head(b)) THEN 1
  ELSE localeCompare(Tail(a), Tail(b))

Sign(n) == IF n < 0 THEN -1 ELSE IF n > 0 THEN 1 ELSE 0

\* result[field]
Field(result, field) ==
  IF field \in DOMAIN result THEN result[field] ELSE UNDEF

\* a variant that sorts a null or undefined value last in every order
sortResults_NullsLast(a, b, sort) ==
  LET valA == Field(a, sort.by)
      valB == Field(b, sort.by)
      asc == sort.order = "asc"
  IN IF IsNullish(valA) /\ ~IsNullish(valB) THEN 1
     ELSE IF IsNullish(valB) /\ ~IsNullish(valA) THEN -1
     ELSE IF IsNullish(valA) /\ IsNullish(valB) THEN 0
     ELSE IF TypeOf(valA) = "number" /\ TypeOf(valB) = "number"
          THEN IF IsNaN(valA) \/ IsNaN(valB) THEN 0
               ELSE IF asc THEN Sign(valA[2] - valB[2])
                    ELSE Sign(valB[2] - valA[2])
     ELSE IF TypeOf(valA) = "string" /\ TypeOf(valB) = "string"
          THEN LET comparison == localeCompare(toLowerCase(valA[2]),
                                               toLowerCase(valB[2]))
               IN IF asc THEN comparison ELSE -comparison
     ELSE 0

\* sortResults(a, b, sort): the sign of what the code returns; a NaN
\* difference is 0, which is how Array.prototype.sort reads it
sortResults(a, b, sort) ==
  LET valA == Field(a, sort.by)
      valB == Field(b, sort.by)
      asc == sort.order = "asc"
  IN IF IsNullish(valA) /\ ~IsNullish(valB) THEN (IF asc THEN -1 ELSE 1)
     ELSE IF IsNullish(valB) /\ ~IsNullish(valA) THEN (IF asc THEN 1 ELSE -1)
     ELSE IF IsNullish(valA) /\ IsNullish(valB) THEN 0
     ELSE IF TypeOf(valA) = "number" /\ TypeOf(valB) = "number"
          THEN IF IsNaN(valA) \/ IsNaN(valB) THEN 0
               ELSE IF asc THEN Sign(valA[2] - valB[2])
                    ELSE Sign(valB[2] - valA[2])
     ELSE IF TypeOf(valA) = "string" /\ TypeOf(valB) = "string"
          THEN LET comparison == localeCompare(toLowerCase(valA[2]),
                                               toLowerCase(valB[2]))
               IN IF asc THEN comparison ELSE -comparison
     ELSE 0

\* Array.prototype.sort with the comparator sortResults: a stable sort,
\* here by insertion (each element goes behind the elements that do not
\* sort after it)
RECURSIVE InsertResult(_, _, _, _)
InsertResult(sorted, x, sort, i) ==
  IF i = 0 \/ sortResults(sorted[i], x, sort) <= 0
  THEN SubSeq(sorted, 1, i) \o <<x>> \o SubSeq(sorted, i + 1, Len(sorted))
  ELSE InsertResult(sorted, x, sort, i - 1)

RECURSIVE SortResults(_, _, _)
SortResults(sorted, rest, sort) ==
  IF rest = <<>> THEN sorted
  ELSE SortResults(InsertResult(sorted, Head(rest), sort, Len(sorted)),
                   Tail(rest), sort)

\* Array.prototype.slice(start, end) for integers start and end
slice(seq, start, end) ==
  LET n == Len(seq)
      from == IF start < 0 THEN Max2(n + start, 0) ELSE Min2(start, n)
      to == IF end < 0 THEN Max2(n + end, 0) ELSE Min2(end, n)
  IN SubSeq(seq, from + 1, to)

RECURSIVE ProjectFields(_, _, _)
ProjectFields(result, doc, fields) ==
  IF fields = <<>> THEN result
  ELSE ProjectFields((Head(fields) :> Get(doc, Head(fields))) @@ result,
                     doc, Tail(fields))

createSearchResult(doc, score, opts) ==
  ProjectFields([score |-> RoundTo4(score)], doc, opts.resultFields)

\* the filter callbacks of the model, each returning "true", "false",
\* "throw" (an Error is thrown) or "throwNull" (null is thrown):
\* doc => doc.age > 18 (test/demo.ts:51), a callback that throws an Error
\* on every document, doc => doc.age.toFixed(0) !== "", which throws a
\* TypeError on a document whose age is null or undefined, and
\* doc => { throw null }
ApplyFilter(filter, doc) ==
  CASE filter = "adult" ->
         LET age == Get(doc, "age")
         IN IF age[1] = "number" /\ age[2] > 18 THEN "true" ELSE "false"
    [] filter = "throws" -> "throw"
    [] filter = "ageToFixed" ->
         IF IsNullish(Get(doc, "age")) THEN "throw" ELSE "true"
    [] filter = "throwsNull" -> "throwNull"
    [] filter = "acceptAll" -> "true"

\* x || dflt for an optional number
OrDefault(x, dflt) == IF Falsy(x) THEN dflt ELSE x[2]

\* score <= 0
NotPositive(score) == ~IsNaN(score) /\ score[2] <= 0

\* the loop `for (const [docId, score] of scores)` of search, on
\* acc = [candidateResults, totalScored, thrown]; thrown is "" until the
\* filter throws, and then "throw" or "throwNull"
RECURSIVE CollectCandidates(_, _, _, _, _)
CollectCandidates(e, scores, filter, opts, acc) ==
  IF scores = <<>> \/ acc.thrown # "" THEN acc
  ELSE LET docId == Head(scores)[1]
           score == Head(scores)[2]
           known == docId \in DOMAIN e.documentMap
           verdict == IF known THEN ApplyFilter(filter, e.documentMap[docId])
                      ELSE "false"
       IN CollectCandidates(e, Tail(scores), filter, opts,
            IF NotPositive(score) \/ ~known \/ verdict = "false" THEN acc
            ELSE IF verdict \in {"throw", "throwNull"}
            THEN [acc EXCEPT !.thrown = verdict]
            ELSE [acc EXCEPT
                    !.candidateResults =
                      Append(@, createSearchResult(e.documentMap[docId],
                                                   score, opts)),
                    !.totalScored = @ + 1])

RECURSIVE SumScores(_)
SumScores(scores) ==
  IF scores = <<>> THEN Num(0)
  ELSE AddNumbers(Head(scores)[2], SumScores(Tail(scores)))

Response(results, totalResults, query, error, debug) ==
  <<"response",
    [results |-> results, total |-> Len(results),
     totalResults |-> totalResults, query |-> query, error |-> error,
     debug |-> debug]>>

\* what the caller gets when the call throws
Exception(name) == <<"exception", name>>

DefaultSort == [by |-> "score", order |-> "desc"]

\* search(query, options).  searchTime, read from the clock, is left out.
\* What the filter throws is caught (lines 546-555); the handler reads
\* error.message, which throws a TypeError when the value caught is null.
search(e, query, sopts, opts) ==
  IF Falsy(query) \/ TypeOf(query) # "string" \/ trim(query[2]) = <<>>
  THEN Response(<<>>, 0, IF Falsy(query) THEN Str(<<>>) ELSE query,
                UNDEF, UNDEF)
  ELSE
  LET normalizedQuery == trim(query[2])
      fields == IF Falsy(sopts.fields) THEN opts.searchFields
                ELSE sopts.fields[2]
      fuzzyFactor == IF IsNullish(sopts.fuzzyFactor) THEN opts.fuzzyFactor
                     ELSE sopts.fuzzyFactor[2]
      filter == IF Falsy(sopts.filter) THEN "acceptAll" ELSE sopts.filter[2]
      sort == IF Falsy(sopts.sort) THEN DefaultSort ELSE sopts.sort[2]
      limit == Max2(1, OrDefault(sopts.limit, 10))
      offset == Max2(0, OrDefault(sopts.offset, 0))
      tokens == TokenizerTokenize(Str(normalizedQuery), TokenOptions(opts))
      filteredTokens == SelectSeq(tokens, LAMBDA t : t \notin opts.stopWords)
  IN IF filteredTokens = <<>>
     THEN Response(<<>>, 0, Str(normalizedQuery), UNDEF, UNDEF)
     ELSE
     LET found == searchTokens(e, filteredTokens, fields, fuzzyFactor,
                               [scores |-> <<>>, indexKeysMatched |-> 0])
         got == CollectCandidates(e, found.scores, filter, opts,
                  [candidateResults |-> <<>>, totalScored |-> 0,
                   thrown |-> ""])
         sorted == SortResults(<<>>, got.candidateResults, sort)
         paginatedResults == slice(sorted, offset, offset + limit)
         total == SumScores(found.scores)
         debugInfo ==
           [processedTokens |-> filteredTokens,
            indexKeysMatched |-> found.indexKeysMatched,
            documentsScored |-> got.totalScored,
            averageScore |->
              IF got.totalScored > 0
              THEN IF IsNaN(total) THEN NaN
                   ELSE Num(TruncDiv(total[2], got.totalScored))
              ELSE Num(0)]
     IN IF got.thrown = "throw"
        THEN Response(<<>>, 0, query, <<"error", "Search failed">>, UNDEF)
        ELSE IF got.thrown = "throwNull"
        THEN Exception("TypeError")
        ELSE Response(paginatedResults, got.totalScored, Str(normalizedQuery),
                      UNDEF,
                      IF Falsy(sopts.debug) THEN UNDEF
                      ELSE <<"object", debugInfo>>)

(***************************************************************************)
(* autoSuggest.  suggestions is a Map: a sequence of <<token, score>>      *)
(* pairs in insertion order; scores are in ten-thousandths.                     *)
(***************************************************************************)
\* a variant that scores a suggestion by its prefix bonus alone
SuggestKey_PrefixOnly(e, lastToken, maxDistance, suggestions, key) ==
  LET token == key[2]
      distance == getDistance(lastToken, token)
      prefix == startsWith(token, lastToken)
  IN IF prefix \/ distance <= maxDistance
     THEN LET score == e.index[key].df * (IF prefix THEN 5000 ELSE 0)
              currentScore == IF MapHas(suggestions, token)
                              THEN MapGet(suggestions, token) ELSE 0
          IN MapSet(suggestions, token, Max2(currentScore, score))
     ELSE suggestions

SuggestKey(e, lastToken, maxDistance, suggestions, key) ==
  LET token == key[2]
      similarity == calculateSimilarity(lastToken, token)
      distance == getDistance(lastToken, token)
      prefix == startsWith(token, lastToken)
  IN IF prefix \/ distance <= maxDistance
     THEN LET score == e.index[key].df
                         * (similarity + (IF prefix THEN 5000 ELSE 0))
              currentScore == IF MapHas(suggestions, token)
                              THEN MapGet(suggestions, token) ELSE 0
          IN MapSet(suggestions, token, Max2(currentScore, score))
     ELSE suggestions

\* the loop `for (const key in this.index)` of autoSuggest
RECURSIVE SuggestKeys(_, _, _, _)
SuggestKeys(e, lastToken, maxDistance, st) ==
  IF st.left = <<>> THEN st.acc
  ELSE SuggestKeys(e, lastToken, maxDistance,
                   Loop(Tail(st.left),
                        SuggestKey(e, lastToken, maxDistance, st.acc,
                                   Head(st.left))))

\* sort((a, b) => b[1] - a[1]): stable, descending by score
RECURSIVE InsertSuggestion(_, _, _)
InsertSuggestion(sorted, x, i) ==
  IF i = 0 \/ sorted[i][2] >= x[2]
  THEN SubSeq(sorted, 1, i) \o <<x>> \o SubSeq(sorted, i + 1, Len(sorted))
  ELSE InsertSuggestion(sorted, x, i - 1)

RECURSIVE SortSuggestions(_, _)
SortSuggestions(sorted, rest) ==
  IF rest = <<>> THEN sorted
  ELSE SortSuggestions(InsertSuggestion(sorted, Head(rest), Len(sorted)),
                       Tail(rest))

autoSuggest(e, query, sopts) ==
  LET limit == OrDefault(sopts.limit, 5)
      fuzzyFactor == OrDefault(sopts.fuzzyFactor, 2)
  IN IF Falsy(query) \/ trim(query[2]) = <<>> THEN <<>>
     ELSE LET tokens == TokenizerTokenize(Str(toLowerCase(query[2])),
                                          NoTokenOptions)
          IN IF tokens = <<>> THEN <<>>
             ELSE LET lastToken == tokens[Len(tokens)]
                      maxDistance == MaxDistance(Len(lastToken), fuzzyFactor)
                      suggestions == SuggestKeys(e, lastToken, maxDistance,
                                                 Loop(e.indexKeys, <<>>))
                      ranked == slice(SortSuggestions(<<>>, suggestions),
                                      0, limit)
                  IN [i \in 1..Len(ranked) |-> ranked[i][1]]

(***************************************************************************)
(* The state: the engine's fields, the options it was constructed with,    *)
(* and the last call made on it with what it returned.                     *)
(***************************************************************************)
VARIABLES index, indexKeys, documents, documentMap, docsCount, docLengths,
          avgDocLength, options, last

engine == <<index, indexKeys, documents, documentMap, docsCount, docLengths,
            avgDocLength>>
vars == <<index, indexKeys, documents, documentMap, docsCount, docLengths,
          avgDocLength, options, last>>

Eng ==
  [index |-> index, indexKeys |-> indexKeys, documents |-> documents,
   documentMap |-> documentMap, docsCount |-> docsCount,
   docLengths |-> docLengths, avgDocLength |-> avgDocLength]

\* this.options with this.searchFields, this.resultFields, this.stopWords
Options == ConstructorOptions(options)

SetEng(e) ==
  /\ index' = e.index
  /\ indexKeys' = e.indexKeys
  /\ documents' = e.documents
  /\ documentMap' = e.documentMap
  /\ docsCount' = e.docsCount
  /\ docLengths' = e.docLengths
  /\ avgDocLength' = e.avgDocLength

\* a call: the operation, its arguments (records or an identifier), the
\* query and options of a search, and what it returned
Call(op, args, query, sopts, ret) ==
  [op |-> op, args |-> args, query |-> query, sopts |-> sopts, ret |-> ret,
   pre |-> VOID]

Init ==
  /\ options \in Configs
  /\ index = NewEngine.index
  /\ indexKeys = NewEngine.indexKeys
  /\ documents = NewEngine.documents
  /\ documentMap = NewEngine.documentMap
  /\ docsCount = NewEngine.docsCount
  /\ docLengths = NewEngine.docLengths
  /\ avgDocLength = NewEngine.avgDocLength
  /\ last = Call("new", <<>>, UNDEF, NoOptions, VOID)

IndexDocuments ==
  \E docs \in Batches :
    /\ SetEng(indexDocuments(Eng, docs, Options))
    /\ last' = Call("indexDocuments", docs, UNDEF, NoOptions, VOID)
    /\ UNCHANGED options

IndexDocument ==
  /\ docsCount < MaxDocs
  /\ \E doc \in Records :
       /\ SetEng(indexDocument(Eng, doc, Options))
       /\ last' = Call("indexDocument", <<doc>>, UNDEF, NoOptions, VOID)
       /\ UNCHANGED options

GetStats ==
  /\ last' = Call("getStats", <<>>, UNDEF, NoOptions,
                  <<"stats", getStats(Eng, Options)>>)
  /\ UNCHANGED <<engine, options>>

Next == IndexDocuments \/ IndexDocument \/ GetStats

Spec == Init /\ [][Next]_vars

(***************************************************************************)
(* addDocument and removeDocument, which the README documents and whose    *)
(* code is not in the source at hand: modelled from the specification's    *)
(* contracts (section 4.1).                                                *)
(***************************************************************************)
\* addDocument(record): validate and index one record, then recompute the
\* average; a no-op for an invalid record
addDocument(e, doc, opts) ==
  IF ~validateDocument(doc) THEN e
  ELSE calculateAverageDocLength(indexDocument(e, doc, opts))

Restrict(f, S) == [x \in S |-> f[x]]

\* the index without the postings of docId: each entry that held one has
\* its documentFrequency decremented, and is deleted when that reaches 0
RemovePostings(idx, docId) ==
  LET held == {k \in DOMAIN idx : docId \in DOMAIN idx[k].postings}
      gone == {k \in held : idx[k].df - 1 = 0}
  IN [k \in DOMAIN idx \ gone |->
        IF k \in held
        THEN [df |-> idx[k].df - 1,
              postings |-> Restrict(idx[k].postings,
                                    DOMAIN idx[k].postings \ {docId})]
        ELSE idx[k]]

\* removeDocument(id): [e |-> the engine after the call, ret |-> whether a
\* document was found and removed]
removeDocument(e, id) ==
  LET docId == String(id) IN
  IF docId \notin DOMAIN e.documentMap
  THEN [e |-> e, ret |-> FALSE]
  ELSE LET idx == RemovePostings(e.index, docId)
           Stays(d) == String(Get(d, "id")) # docId
           e1 == [e EXCEPT
                    !.index = idx,
                    !.indexKeys = SelectSeq(e.indexKeys,
                                            LAMBDA k : k \in DOMAIN idx),
                    !.documents = SelectSeq(e.documents, Stays),
                    !.documentMap = Restrict(e.documentMap,
                                             DOMAIN e.documentMap \ {docId}),
                    !.docLengths = Restrict(e.docLengths,
                                            DOMAIN e.docLengths \ {docId}),
                    !.docsCount = e.docsCount - 1]
       IN [e |-> calculateAverageDocLength(e1), ret |-> TRUE]

Identifiers == {Num(1), Num(2), Str(<<"2">>), Num(9)}

Bool(b) == <<"boolean", b>>

\* the part of the engine's state a later removal is compared with
Snapshot(e) ==
  <<"state", [index |-> e.index, docsCount |-> e.docsCount,
              docLengths |-> e.docLengths, documentMap |-> e.documentMap]>>

AddDocument ==
  /\ docsCount < MaxDocs
  /\ \E doc \in Records :
       /\ SetEng(addDocument(Eng, doc, Options))
       /\ last' = [Call("addDocument", <<doc>>, UNDEF, NoOptions, VOID)
                     EXCEPT !.pre = Snapshot(Eng)]
       /\ UNCHANGED options

\* last.pre of a removal is the state before the addDocument call that came
\* right before it, when that call added the identifier now removed
RemoveDocument ==
  \E id \in Identifiers :
    LET r == removeDocument(Eng, id) IN
    /\ SetEng(r.e)
    /\ last' = [Call("removeDocument", <<id>>, UNDEF, NoOptions, Bool(r.ret))
                  EXCEPT !.pre =
                    IF /\ last.op = "addDocument"
                       /\ validateDocument(last.args[1])
                       /\ String(Get(last.args[1], "id")) = String(id)
                    THEN last.pre ELSE VOID]
    /\ UNCHANGED options

NextDocMgmt == Next \/ AddDocument \/ RemoveDocument

SpecDocMgmt == Init /\ [][NextDocMgmt]_vars

(***************************************************************************)
(* Queries.  The engine is loaded with one of a few collections and then   *)
(* searched and asked for suggestions; last holds the call, what it        *)
(* returned and the engine's state when it was made.                       *)
(***************************************************************************)
\* the largest limit and the largest offset a query is made with
MaxLimit == 2
MaxOffset == 1

\* the records of the README's quick start with their title only
T1 == Obj([id |-> Num(1), title |-> Str(TextJavaScriptBasics)])
T2 == Obj([id |-> Num(2), title |-> Str(TextNodeJs)])
T3 == Obj([id |-> Num(3), title |-> Str(TextTypeScriptGuide)])

\* three records of one word each: a word, its plural, another word
G1 == Obj([id |-> Num(1), title |-> Str(<<"B","a","s","i","c">>)])
G2 == Obj([id |-> Num(2), title |-> Str(<<"B","a","s","i","c","s">>)])
G3 == Obj([id |-> Num(3), title |-> Str(TextJava)])

Corpora ==
  {<<T1, T2, T3>>, <<D1, D2, D3>>, <<D2, D3, D1>>, <<V4>>, <<G1, G2, G3>>}

SortBy(by, order) == Obj([by |-> by, order |-> order])
Fn(name) == <<"function", name>>

\* order "undefined": a sort option without an order
Sorts ==
  {UNDEF, SortBy("age", "asc"), SortBy("age", "desc"),
   SortBy("age", "undefined"), SortBy("title", "asc")}
Filters == {UNDEF, Fn("adult"), Fn("throws"), Fn("ageToFixed"), Fn("throwsNull")}
Limits == {UNDEF} \cup {Num(n) : n \in -1..MaxLimit}
Offsets == {UNDEF} \cup {Num(n) : n \in -1..MaxOffset}

Paging ==
  {[NoOptions EXCEPT !.sort = s, !.limit = l, !.offset = o] :
     s \in {UNDEF, SortBy("age", "desc")}, l \in Limits, o \in Offsets}
Sorting ==
  {[NoOptions EXCEPT !.sort = s, !.filter = f] : s \in Sorts, f \in Filters}
Matching ==
  {[NoOptions EXCEPT !.fuzzyFactor = z, !.debug = d] :
     z \in {UNDEF, Num(0), Num(5)}, d \in {UNDEF, Bool(TRUE)}}
Queries ==
  {Str(QueryJavascript), Str(QueryBasics), Str(QueryBlank),
   Str(QueryStopWords), UNDEF}

\* searches that ask for the debug field, with and without a filter
Averaging ==
  {[NoOptions EXCEPT !.filter = f, !.limit = l, !.debug = Bool(TRUE)] :
     f \in {UNDEF, Fn("adult")}, l \in {UNDEF, Num(1)}}

\* queries without a term to search for: empty, blank, stop words only
QueryWithFor == <<"W","i","t","h"," ","F","O","R">>
Vacuous ==
  {Str(<<>>), Str(QueryBlank), Str(QueryStopWords), Str(QueryWithFor)}
    \X {[NoOptions EXCEPT !.filter = f, !.debug = d] :
          f \in {UNDEF, Fn("throwsNull")}, d \in {UNDEF, Bool(TRUE)}}

\* searches of the content field alone
Scoped ==
  {[NoOptions EXCEPT !.fields = <<"array", <<"content">>>>,
                     !.fuzzyFactor = z] : z \in {UNDEF, Num(5)}}

\* the calls of search: <<query, options>>
SearchCalls ==
  ({Str(QueryAll)} \X (Paging \cup Sorting \cup Averaging \cup Scoped))
    \cup (Queries \X Matching) \cup Vacuous

\* the calls of autoSuggest: <<query, options>>
SuggestCalls ==
  {Str(QueryJav), Str(QueryJavascript), Str(QueryBlank), UNDEF}
    \X {[NoOptions EXCEPT !.limit = l, !.fuzzyFactor = z] :
          l \in {UNDEF, Num(1)}, z \in {UNDEF, Num(5)}}

IndexCorpus ==
  \E docs \in Corpora :
    /\ SetEng(indexDocuments(Eng, docs, Options))
    /\ last' = Call("indexDocuments", docs, UNDEF, NoOptions, VOID)
    /\ UNCHANGED options

\* a variant in which a query is counted as a document
Search_Counting ==
  \E call \in SearchCalls :
    /\ last' = [Call("search", <<>>, call[1], call[2],
                     search(Eng, call[1], call[2], Options))
                  EXCEPT !.pre = Snapshot(Eng)]
    /\ docsCount' = docsCount + 1
    /\ UNCHANGED <<index, indexKeys, documents, documentMap, docLengths,
                   avgDocLength, options>>

Search ==
  \E call \in SearchCalls :
    /\ last' = [Call("search", <<>>, call[1], call[2],
                     search(Eng, call[1], call[2], Options))
                  EXCEPT !.pre = Snapshot(Eng)]
    /\ UNCHANGED <<engine, options>>

AutoSuggest ==
  \E call \in SuggestCalls :
    /\ last' = [Call("autoSuggest", <<>>, call[1], call[2],
                     <<"array", autoSuggest(Eng, call[1], call[2])>>)
                  EXCEPT !.pre = Snapshot(Eng)]
    /\ UNCHANGED <<engine, options>>

NextQuery == IndexCorpus \/ Search \/ AutoSuggest \/ GetStats

SpecQuery == Init /\ [][NextQuery]_vars

(***************************************************************************)
(* C2.  For any engine state S and any valid record d whose identifier is  *)
(* not present in S, addDocument(d) followed at once by                    *)
(* removeDocument(d.id) restores the index of S (every key d contributed   *)
(* has its prior documentFrequency and postings, every IndexEntry left     *)
(* with no posting is deleted) and the document count and length table of  *)
(* S, and removeDocument returns true.                                     *)
(***************************************************************************)
C2_AddThenRemoveRestores ==
  (/\ last.op = "removeDocument"
   /\ last.pre # VOID
   /\ String(last.args[1]) \notin DOMAIN last.pre[2].documentMap)
  => /\ index = last.pre[2].index
     /\ docsCount = last.pre[2].docsCount
     /\ docLengths = last.pre[2].docLengths
     /\ last.ret = Bool(TRUE)

\* the record added and removed shared an entry with a document of S
C2_Witness ==
  /\ last.op = "removeDocument"
  /\ last.pre # VOID
  /\ String(last.args[1]) \notin DOMAIN last.pre[2].documentMap
  /\ last.ret = Bool(TRUE)
  /\ \E key \in DOMAIN index : key[2] = <<"b","a","s","i","c","s">>
  /\ docsCount = 1

(***************************************************************************)
(* C1.  In every state reached by indexDocuments and indexDocument calls   *)
(* (records repeating an identifier included), every IndexEntry of the     *)
(* index has documentFrequency equal to the number of identifiers in its   *)
(* postings map, and that number is at least 1.                            *)
(***************************************************************************)
C1_DfIsPostingCount ==
  \A key \in DOMAIN index :
    /\ index[key].df = Cardinality(DOMAIN index[key].postings)
    /\ index[key].df >= 1

\* two records of one identifier have been indexed: the entry counts one
\* document, its posting two occurrences
C1_Witness ==
  /\ docsCount = 2
  /\ Cardinality(DOMAIN documentMap) = 1
  /\ \E key \in DOMAIN index :
       \E d \in DOMAIN index[key].postings :
         index[key].df = 1 /\ index[key].postings[d].tf = 2

(***************************************************************************)
(* C3.  After indexDocuments(R) the index, the document collection, the    *)
(* identifier map, the document count and the length table are those       *)
(* obtained by indexing, in input order, only the valid records of R       *)
(* (objects with a non-null identifier) into a freshly built engine.       *)
(***************************************************************************)
IsValidRecord(r) ==
  /\ r[1] = "object"
  /\ "id" \in DOMAIN r[2]
  /\ r[2]["id"][1] \notin {"null", "undefined"}

RECURSIVE IndexInOrder(_, _, _)
IndexInOrder(e, docs, opts) ==
  IF docs = <<>> THEN e
  ELSE IndexInOrder(indexDocument(e, Head(docs), opts), Tail(docs), opts)

C3_BulkLoadIsFreshIndexing ==
  last.op = "indexDocuments" =>
    LET fresh == IndexInOrder(NewEngine, SelectSeq(last.args, IsValidRecord),
                              Options)
    IN /\ index = fresh.index
       /\ documents = fresh.documents
       /\ documentMap = fresh.documentMap
       /\ docsCount = fresh.docsCount
       /\ docLengths = fresh.docLengths

\* a batch whose first record is invalid and whose second is indexed
C3_Witness ==
  /\ last.op = "indexDocuments"
  /\ Len(last.args) = 2
  /\ ~IsValidRecord(last.args[1])
  /\ IsValidRecord(last.args[2])
  /\ docsCount = 1
  /\ index # EmptyMap

(***************************************************************************)
(* C4.  After indexDocuments(R), averageDocumentLength is the mean of the  *)
(* token counts held in the length table: averageDocumentLength times the  *)
(* number of entries of the length table equals the sum of the entries,    *)
(* and it is 0 when no document was indexed; for every R, also one with    *)
(* several records of the same identifier.                                 *)
(***************************************************************************)
C4_AverageIsMeanOfLengthTable ==
  last.op = "indexDocuments" =>
    /\ avgDocLength.n * Cardinality(DOMAIN docLengths)
         = SumOver(docLengths, DOMAIN docLengths) * avgDocLength.d
    /\ docsCount = 0 => avgDocLength = Zero

(***************************************************************************)
(* C5.  The identifier field is configurable: with identifier field name   *)
(* F (idAlias), a record is accepted for indexing iff its field F is       *)
(* neither missing nor null, and its entries are keyed by the value of     *)
(* its field F.  Stated for a bulk load of one record.                     *)
(***************************************************************************)
C5_IdentifierFieldIsConfigurable ==
  (last.op = "indexDocuments" /\ Len(last.args) = 1) =>
    LET r == last.args[1]
        F == options.idAlias
        hasF == /\ r[1] = "object"
                /\ F \in DOMAIN r[2]
                /\ r[2][F][1] \notin {"null", "undefined"}
    IN /\ (docsCount = 1) <=> hasF
       /\ hasF => /\ DOMAIN documentMap = {String(r[2][F])}
                  /\ DOMAIN docLengths = {String(r[2][F])}

(***************************************************************************)
(* C6.  As stated: sorting places null/undefined sort keys last in both    *)
(* directions, i.e. for any sort field and for order "asc" as well as      *)
(* "desc", in the sorted candidate list of search no result whose          *)
(* sort-field value is null or undefined precedes a result whose           *)
(* sort-field value is non-null.                                           *)
(***************************************************************************)
\* a search that returned a response and was given a sort option
SortedSearch ==
  /\ last.op = "search"
  /\ last.ret[1] = "response"
  /\ ~Falsy(last.sopts.sort)

\* some result without a value of field `by` precedes one with a value
NullBeforeValue(results, by) ==
  \E i, j \in DOMAIN results :
    /\ i < j
    /\ IsNullish(Field(results[i], by))
    /\ ~IsNullish(Field(results[j], by))

\* some result with a value of field `by` precedes one without
ValueBeforeNull(results, by) ==
  \E i, j \in DOMAIN results :
    /\ i < j
    /\ ~IsNullish(Field(results[i], by))
    /\ IsNullish(Field(results[j], by))

C6_NullsLastInBothDirections ==
  SortedSearch =>
    ~NullBeforeValue(last.ret[2].results, last.sopts.sort[2].by)

(***************************************************************************)
(* C6, amended.  Null/undefined sort keys are placed last when the order   *)
(* is "desc" or not given, and first when the order is "asc": in the       *)
(* sorted list no null-keyed result precedes a non-null-keyed one unless   *)
(* the order is "asc", and then no non-null-keyed result precedes a        *)
(* null-keyed one.                                                         *)
(***************************************************************************)
C6_NullsLastUnlessAscending ==
  SortedSearch =>
    LET given == last.sopts.sort[2]
        sorted == last.ret[2].results
    IN IF given.order = "asc" THEN ~ValueBeforeNull(sorted, given.by)
       ELSE ~NullBeforeValue(sorted, given.by)

\* an ascending sort by age of three results, the one without an age first
C6_Witness ==
  /\ SortedSearch
  /\ last.sopts.sort[2] = [by |-> "age", order |-> "asc"]
  /\ Len(last.ret[2].results) = 3
  /\ IsNullish(last.ret[2].results[1].age)
  /\ ~IsNullish(last.ret[2].results[2].age)

(***************************************************************************)
(* C7.  Pagination returns a window of the full ranking: the results of    *)
(* search(q, {limit, offset}) are exactly the elements of the fully sorted *)
(* candidate list from index max(0, offset) up to max(1, limit) elements   *)
(* (limit 10 when not given); a supplied limit below 1 is clamped to 1.    *)
(***************************************************************************)
\* the ranking of the last search without limit and offset
FullRanking ==
  search(Eng, last.query,
         [last.sopts EXCEPT !.limit = UNDEF, !.offset = UNDEF],
         Options)[2].results

C7_PaginationIsWindowOfRanking ==
  (/\ last.op = "search"
   /\ last.ret[1] = "response"
   /\ last.ret[2].error = UNDEF)
  => LET limit == IF last.sopts.limit = UNDEF THEN 10
                  ELSE Max2(1, last.sopts.limit[2])
         offset == IF last.sopts.offset = UNDEF THEN 0
                   ELSE Max2(0, last.sopts.offset[2])
         full == FullRanking
     IN last.ret[2].results
          = SubSeq(full, offset + 1, Min2(Len(full), offset + limit))

(***************************************************************************)
(* C8.  search never propagates a failure: when the caller's filter        *)
(* callback throws on a document it is applied to, search returns a        *)
(* response with results = [], total = 0, totalResults = 0, the query      *)
(* string and an error field, raises no exception, and leaves the index,   *)
(* the document collection and the length table unchanged.                 *)
(***************************************************************************)
\* the filter of the last search throws, and is applied to a document
FilterThrew ==
  /\ last.op = "search"
  /\ last.sopts.filter \in {Fn("throws"), Fn("throwsNull")}
  /\ search(Eng, last.query, [last.sopts EXCEPT !.filter = UNDEF],
            Options)[2].totalResults > 0

C8_SearchNeverPropagatesFailure ==
  FilterThrew =>
    /\ last.ret[1] = "response"
    /\ last.ret[2].results = <<>>
    /\ last.ret[2].total = 0
    /\ last.ret[2].totalResults = 0
    /\ last.ret[2].query = last.query
    /\ last.ret[2].error # UNDEF
    /\ Snapshot(Eng) = last.pre

(***************************************************************************)
(* C9.  As stated: with documents {id:1, title:"JavaScript Basics"},       *)
(* {id:2, title:"Node.js Advanced"}, {id:3, title:"TypeScript Guide"}      *)
(* bulk-loaded into an engine whose only search field is title (default    *)
(* fuzzyFactor), search("javascript") returns exactly documents 1 and 3    *)
(* (not document 2), and document 1's score is at least document 3's.      *)
(***************************************************************************)
\* search("javascript") on the three titles, searched by title
QuickStartSearch ==
  /\ documents = <<T1, T2, T3>>
  /\ options.searchFields = <<"title">>
  /\ last.op = "search"
  /\ last.query = Str(QueryJavascript)
  /\ last.sopts = NoOptions

ScoreOf(results, id) ==
  (CHOOSE r \in Range(results) : r.id = id).score

C9_ReturnsDocuments1And3 ==
  QuickStartSearch =>
    LET results == last.ret[2].results
    IN /\ Len(results) = 2
       /\ {r.id : r \in Range(results)} = {Num(1), Num(3)}
       /\ ScoreOf(results, Num(1))[2] >= ScoreOf(results, Num(3))[2]

(***************************************************************************)
(* C9, amended.  With those three documents and title as the only search   *)
(* field, search("javascript") with the default fuzzyFactor returns        *)
(* exactly document 1: "typescript" is at edit distance 4 from             *)
(* "javascript", beyond the 1 the default fuzzyFactor allows.              *)
(***************************************************************************)
C9_ReturnsDocument1Only ==
  QuickStartSearch =>
    /\ last.ret[1] = "response"
    /\ last.ret[2].error = UNDEF
    /\ Len(last.ret[2].results) = 1
    /\ last.ret[2].results[1].id = Num(1)
    /\ last.ret[2].totalResults = 1

C9_Witness ==
  /\ QuickStartSearch
  /\ last.ret[2].total = 1
  /\ last.ret[2].results[1].score[2] > 0

(***************************************************************************)
(* C10.  As stated: for an index whose vocabulary is exactly {javascript,  *)
(* java, node, typescript}, each token with the same document frequency,   *)
(* autoSuggest("jav") with default options returns the list                *)
(* ["javascript", "java"] in that order.                                   *)
(***************************************************************************)
TokenJava == <<"j","a","v","a">>

\* autoSuggest("jav") on an index of exactly the four tokens, each in one
\* document
VocabularySuggest ==
  /\ {key[2] : key \in DOMAIN index}
       = {QueryJavascript, TokenJava, <<"n","o","d","e">>,
          <<"t","y","p","e","s","c","r","i","p","t">>}
  /\ \A key \in DOMAIN index : index[key].df = 1
  /\ last.op = "autoSuggest"
  /\ last.query = Str(QueryJav)
  /\ last.sopts = NoOptions

C10_SuggestsJavascriptThenJava ==
  VocabularySuggest => last.ret = <<"array", <<QueryJavascript, TokenJava>>>>

(***************************************************************************)
(* C10, amended.  For that index autoSuggest("jav") with default options   *)
(* returns ["java", "javascript"]: both prefix matches and no other token, *)
(* "java" first, its similarity to "jav" being the higher one.             *)
(***************************************************************************)
C10_SuggestsJavaThenJavascript ==
  VocabularySuggest => last.ret = <<"array", <<TokenJava, QueryJavascript>>>>

C10_Witness ==
  /\ VocabularySuggest
  /\ Len(last.ret[2]) = 2
  /\ documents = <<V4>>

(***************************************************************************)
(* C11.  For any query, any filter and any index state, the debug field    *)
(* averageScore returned by search(q, {debug:true}) is the average score   *)
(* of the scored documents: it is the sum of the accumulated scores of     *)
(* exactly the documents counted in documentsScored (= totalResults)       *)
(* divided by documentsScored, independent of limit/offset, and it is 0    *)
(* when documentsScored is 0.                                              *)
(***************************************************************************)
\* the sum of the scores of a list of results
RECURSIVE SumResultScores(_)
SumResultScores(ranked) ==
  IF ranked = <<>> THEN 0
  ELSE Head(ranked).score[2] + SumResultScores(Tail(ranked))

\* a search that returned its debug field
DebugSearch ==
  /\ last.op = "search"
  /\ last.ret[1] = "response"
  /\ last.ret[2].debug # UNDEF

C11_AverageScoreIsMeanOfScored ==
  DebugSearch =>
    LET info == last.ret[2].debug[2]
        counted == FullRanking
    IN /\ info.documentsScored = last.ret[2].totalResults
       /\ info.documentsScored = Len(counted)
       /\ info.averageScore =
            IF info.documentsScored = 0 THEN Num(0)
            ELSE Num(TruncDiv(SumResultScores(counted),
                              info.documentsScored))

(***************************************************************************)
(* C12.  Exact match beats fuzzy match: for a single-term query over one   *)
(* field, if document A has a posting under the exact key field:term and   *)
(* document B has a posting only under a different, fuzzy-accepted key,    *)
(* with A and B having equal term frequency, equal document frequency of   *)
(* their keys and equal document length, then A's accumulated score is at  *)
(* least B's score and A is ranked no lower than B under the default sort. *)
(***************************************************************************)
\* the tokens of the last query that are searched for
QueryTerms ==
  SelectSeq(TokenizerTokenize(Str(trim(last.query[2])), TokenOptions(Options)),
            LAMBDA t : t \notin Options.stopWords)

\* a search for one term in one field with the default sort, no filter and
\* no paging
SingleTermSearch ==
  /\ last.op = "search"
  /\ last.ret[1] = "response"
  /\ TypeOf(last.query) = "string"
  /\ Len(options.searchFields) = 1
  /\ Falsy(last.sopts.filter) /\ Falsy(last.sopts.sort)
  /\ Falsy(last.sopts.limit) /\ Falsy(last.sopts.offset)
  /\ Len(QueryTerms) = 1

\* the place of the document with identifier id in the results, 0 if none
PlaceOf(ranked, id) ==
  IF \E i \in DOMAIN ranked : String(ranked[i].id) = id
  THEN CHOOSE i \in DOMAIN ranked : String(ranked[i].id) = id
  ELSE 0

\* A holds the term itself; B, returned too, holds only other keys, each
\* with the term frequency and document frequency of A's
ExactAndFuzzy(ranked, exact, A, B) ==
  /\ exact \in DOMAIN index
  /\ A \in DOMAIN index[exact].postings
  /\ B \notin DOMAIN index[exact].postings
  /\ PlaceOf(ranked, A) > 0 /\ PlaceOf(ranked, B) > 0
  /\ docLengths[A] = docLengths[B]
  /\ \A k \in DOMAIN index :
       (k # exact => A \notin DOMAIN index[k].postings)
       /\ (B \in DOMAIN index[k].postings =>
             /\ index[k].df = index[exact].df
             /\ index[k].postings[B].tf = index[exact].postings[A].tf)

C12_ExactBeatsFuzzy ==
  SingleTermSearch =>
    LET ranked == last.ret[2].results
        exact == <<options.searchFields[1], QueryTerms[1]>>
    IN \A A, B \in DOMAIN documentMap :
         ExactAndFuzzy(ranked, exact, A, B) =>
           /\ ranked[PlaceOf(ranked, A)].score[2]
                >= ranked[PlaceOf(ranked, B)].score[2]
           /\ PlaceOf(ranked, A) < PlaceOf(ranked, B)

(***************************************************************************)
(* C13.  For every engine state (empty or populated) and every query that  *)
(* is empty, whitespace-only, or made only of stop words, search returns   *)
(* results = [], total = 0 and totalResults = 0 with no error field,       *)
(* whatever the options.                                                   *)
(***************************************************************************)
\* the last call searched for a string all of whose words are stop words
\* (of the default list): the empty and the blank string have no word
VacuousSearch ==
  /\ last.op = "search"
  /\ TypeOf(last.query) = "string"
  /\ \A i \in DOMAIN WordTokenize(toLowerCase(last.query[2])) :
       \E w \in {<<"t","h","e">>, <<"o","f">>, <<"w","i","t","h">>,
                 <<"f","o","r">>} :
         WordTokenize(toLowerCase(last.query[2]))[i] = w

C13_VacuousQueryReturnsNothing ==
  VacuousSearch =>
    /\ last.ret[1] = "response"
    /\ last.ret[2].results = <<>>
    /\ last.ret[2].total = 0
    /\ last.ret[2].totalResults = 0
    /\ last.ret[2].error = UNDEF

\* a query of the stop words "with" and "for" on documents whose content
\* holds both, searched by content, with a filter that would throw
C13_Witness ==
  /\ VacuousSearch
  /\ last.query = Str(QueryWithFor)
  /\ last.sopts.filter = Fn("throwsNull")
  /\ documents = <<D1, D2, D3>>
  /\ options.searchFields = <<"title", "content">>
  /\ last.ret[2].results = <<>>

(***************************************************************************)
(* C14.  The set of documents scored by search is exactly the set of       *)
(* matched documents: with an accept-all filter, a document is counted in  *)
(* totalResults iff, for some non-stop-word query term t and some field f  *)
(* in scope, it has a posting under key f:t, or under a key f:k with       *)
(* k != t where round(len(t)*fuzzyFactor) > 0, editDistance(t,k) <=        *)
(* round(len(t)*fuzzyFactor) and calculateSimilarity(t,k) > 0.3.  No       *)
(* matched document is removed by the 'score <= 0' discard, even when its  *)
(* BM25 idf is negative.                                                   *)
(***************************************************************************)
\* a search with a term to search for and no filter, which returned
UnfilteredSearch ==
  /\ last.op = "search"
  /\ last.ret[1] = "response"
  /\ TypeOf(last.query) = "string"
  /\ Falsy(last.sopts.filter)
  /\ QueryTerms # <<>>

\* field f is in the scope of the last search
InScope(f) ==
  IF Falsy(last.sopts.fields) THEN f \in Range(options.searchFields)
  ELSE f \in Range(last.sopts.fields[2])

\* the fuzzyFactor of the last search, in tenths
FuzzyFactorUsed ==
  IF IsNullish(last.sopts.fuzzyFactor) THEN Options.fuzzyFactor
  ELSE last.sopts.fuzzyFactor[2]

\* key k matches term t
Matches(k, t) ==
  \/ k[2] = t
  \/ /\ MaxDistance(Len(t), FuzzyFactorUsed) > 0
     /\ DamerauLevenshteinDistance(t, k[2])
          <= MaxDistance(Len(t), FuzzyFactorUsed)
     /\ calculateSimilarity(t, k[2]) > 3000

\* the identifiers with a posting under a key that matches a query term
Matched ==
  UNION {DOMAIN index[k].postings :
           k \in {k \in DOMAIN index :
                    InScope(k[1]) /\ \E i \in DOMAIN QueryTerms :
                                       Matches(k, QueryTerms[i])}}

C14_ScoredAreTheMatched ==
  UnfilteredSearch =>
    /\ last.ret[2].totalResults = Cardinality(Matched)
    /\ {String(r.id) : r \in Range(FullRanking)} = Matched

\* the only document holds the term: idf is ln(0.5 / 1.5), the score is the
\* floor 0.1, and the document is counted
C14_Witness ==
  /\ UnfilteredSearch
  /\ docsCount = 1
  /\ Matched = {<<"4">>}
  /\ last.ret[2].totalResults = 1
  /\ Len(last.ret[2].results) = 1
  /\ last.ret[2].results[1].score = Num(1000)

(***************************************************************************)
(* C15.  Every posting reflects the document stored under its identifier:  *)
(* in every reachable state, for each key field:token and each identifier  *)
(* i in its postings, termFrequency equals the number of occurrences of    *)
(* token in the tokenization of that field of the record the identifier    *)
(* map holds for i, and positions is exactly the strictly increasing list  *)
(* of those 0-based token offsets.  Claimed for every sequence of          *)
(* indexDocuments / indexDocument calls, including a batch that contains   *)
(* two records with the same identifier.                                   *)
(***************************************************************************)
\* the tokens of a field of a record
FieldTokens(doc, field) ==
  IF Falsy(Get(doc, field)) THEN <<>>
  ELSE TokenizerTokenize(Str(String(Get(doc, field))), TokenOptions(Options))

\* the 0-based offsets of token in tokens, increasing
OffsetsOf(tokens, token) ==
  SelectSeq([p \in 1..Len(tokens) |-> p - 1],
            LAMBDA q : tokens[q + 1] = token)

C15_PostingsReflectStoredDocument ==
  \A key \in DOMAIN index :
    \A i \in DOMAIN index[key].postings :
      /\ i \in DOMAIN documentMap
      /\ LET at == OffsetsOf(FieldTokens(documentMap[i], key[1]), key[2])
         IN /\ index[key].postings[i].tf = Len(at)
            /\ index[key].postings[i].positions = at

(***************************************************************************)
(* C16.  Read operations have no effect on engine state: search (on every  *)
(* path: empty query, stop-word-only query, normal result, caught          *)
(* failure), autoSuggest and getStats leave the index, document            *)
(* collection, identifier map, document count, length table and            *)
(* averageDocumentLength unchanged, and repeating the call just made, in   *)
(* the same state, returns the same.                                       *)
(***************************************************************************)
ReadOperations == {"search", "autoSuggest", "getStats"}

C17_DfBetween1AndDocsCount ==
  \A key \in DOMAIN index :
    /\ 1 <= index[key].df
    /\ index[key].df <= docsCount
    /\ 2 * (docsCount - index[key].df) + 1 > 0
    /\ 2 * index[key].df + 1 > 0
    /\ docsCount + 1 > 0 /\ index[key].df + 1 > 0

\* both documents indexed hold the token: documentFrequency is N
C17_Witness ==
  /\ docsCount = 2
  /\ \E key \in DOMAIN index :
       index[key].df = 2 /\ Cardinality(DOMAIN index[key].postings) = 2

=============================================================================
